---- MODULE Spec2Model ----
(***************************************************************************)
(* Model of the todo page (src/src/app/page.tsx; src/unnamed/part_000 is   *)
(* the same component with another colour theme).                          *)
(*                                                                         *)
(* One React component `Home` holds three pieces of state (todos, text,    *)
(* filter), loads todos from localStorage in a mount effect and writes     *)
(* them back in an effect that depends on `todos`.                         *)
(*                                                                         *)
(* JavaScript values are modelled as tagged records (JsVal), the           *)
(* localStorage entry as the text it holds (Blob), and JSON.parse /        *)
(* JSON.stringify as the conversions between the two.  React is modelled   *)
(* by what it does to this component: effects of one commit run in         *)
(* declaration order, state updates queued by an effect are applied in the *)
(* next render, the save effect re-runs whenever `todos` is a new array,   *)
(* and a discrete event is rendered and its effects flushed before the     *)
(* next event is handled.  In development builds with StrictMode the mount *)
(* effects are run twice before the queued updates are applied.            *)
(***************************************************************************)
EXTENDS Integers, Sequences, FiniteSets, TLC

VARIABLES
    todos,        \* useState<Todo[]>([])      (page.tsx:45)
    text,         \* useState("")              (page.tsx:46)
    filter,       \* useState<Filter>("all")   (page.tsx:47)
    storage,      \* localStorage entry under STORAGE_KEY
    hasWindow,    \* typeof window !== "undefined"
    pc,           \* position of the component in its life cycle
    pass,         \* number of mount-effect passes run in this startup
    queue,        \* setTodos updates queued by effects, not yet rendered
    savePending,  \* the [todos] effect is scheduled and has not run yet
    lastOp,       \* the event whose effects are not flushed yet: [op, id]
    prevList      \* during startup: the list the previous instance held

vars == <<todos, text, filter, storage, hasWindow, pc, pass, queue,
          savePending, lastOp, prevList>>

----------------------------------------------------------------------------
(* Bounds *)

MaxLen == 2        \* an add is taken only while the list is shorter
MaxStored == 2     \* longest array in the initial stored blob
NumIds == 3        \* number of distinct id strings

----------------------------------------------------------------------------
(* JavaScript values *)

\* what the user types into the input field: nothing, whitespace only, a
\* word, a word with whitespace on both sides, two words
InputStrings ==
    { << >>,
      <<" ">>,
      <<"a">>,
      <<" ", "a", " ">>,
      <<"a", " ", "a">> }

\* what Date.now() returns when a task is added (page.tsx:83); no operation
\* reads createdAt, so one value later than the stored ones stands for all
Timestamps == {3}

IdStrings == {<<"id", i>> : i \in 1..NumIds}

Undefined == [t |-> "undefined", s |-> << >>, n |-> 0, b |-> FALSE, fin |-> TRUE]
Null      == [t |-> "object",    s |-> << >>, n |-> 0, b |-> FALSE, fin |-> TRUE]
Str(s)    == [t |-> "string",    s |-> s,     n |-> 0, b |-> FALSE, fin |-> TRUE]
Num(n)    == [t |-> "number",    s |-> << >>, n |-> n, b |-> FALSE, fin |-> TRUE]
Infinity  == [t |-> "number",    s |-> << >>, n |-> 0, b |-> FALSE, fin |-> FALSE]
Bool(b)   == [t |-> "boolean",   s |-> << >>, n |-> 0, b |-> b,     fin |-> TRUE]

\* typeof v
TypeOf(v) == v.t

\* ToBoolean(v), as used by `!v` and by filter callbacks
Truthy(v) ==
    CASE v.t = "boolean" -> v.b
      [] v.t = "string"  -> v.s # << >>
      [] v.t = "number"  -> (~v.fin) \/ v.n # 0
      [] OTHER           -> FALSE

\* !v
Not(v) == Bool(~Truthy(v))

\* Trim without the trimming
TrimNothing(s) == s

\* String.prototype.trim
RECURSIVE TrimStart(_)
TrimStart(s) ==
    IF s = << >> THEN << >>
    ELSE IF Head(s) = " " THEN TrimStart(Tail(s)) ELSE s

RECURSIVE TrimEnd(_)
TrimEnd(s) ==
    IF s = << >> THEN << >>
    ELSE IF s[Len(s)] = " " THEN TrimEnd(SubSeq(s, 1, Len(s) - 1)) ELSE s

Trim(s) == TrimEnd(TrimStart(s))

----------------------------------------------------------------------------
(* Objects and JSON text *)

\* An array element: an object with the four Todo properties (a property
\* that is not there reads as undefined), null, or a primitive.
Obj(id, txt, completed, createdAt) ==
    [shape |-> "object", id |-> id, text |-> txt,
     completed |-> completed, createdAt |-> createdAt]

NullElem == [shape |-> "null", id |-> Undefined, text |-> Undefined,
             completed |-> Undefined, createdAt |-> Undefined]
PrimElem == [shape |-> "prim", id |-> Undefined, text |-> Undefined,
             completed |-> Undefined, createdAt |-> Undefined]

\* JSON tokens for a property: the property is not written at all, or its
\* value is null, a string, a boolean, or a number literal (fin = FALSE is
\* a literal beyond the double range, such as 1e999).
JMissing == [t |-> "missing", s |-> << >>, n |-> 0, b |-> FALSE, fin |-> TRUE]
JNull    == [t |-> "null",    s |-> << >>, n |-> 0, b |-> FALSE, fin |-> TRUE]
JStr(s)  == [t |-> "string",  s |-> s,     n |-> 0, b |-> FALSE, fin |-> TRUE]
JNum(n)  == [t |-> "number",  s |-> << >>, n |-> n, b |-> FALSE, fin |-> TRUE]
JBig     == [t |-> "number",  s |-> << >>, n |-> 0, b |-> FALSE, fin |-> FALSE]
JBool(b) == [t |-> "boolean", s |-> << >>, n |-> 0, b |-> b,     fin |-> TRUE]

\* The three element shapes as written in JSON text.
JObj(id, txt, completed, createdAt) ==
    [shape |-> "object", id |-> id, text |-> txt,
     completed |-> completed, createdAt |-> createdAt]
JNullElem == [shape |-> "null", id |-> JMissing, text |-> JMissing,
              completed |-> JMissing, createdAt |-> JMissing]
JPrimElem == [shape |-> "prim", id |-> JMissing, text |-> JMissing,
              completed |-> JMissing, createdAt |-> JMissing]

\* The entry under STORAGE_KEY: absent, or a text that is empty, not JSON,
\* JSON whose top-level value is not an array, or a JSON array.
AbsentBlob   == [kind |-> "absent",   elems |-> << >>]
EmptyBlob    == [kind |-> "empty",    elems |-> << >>]
InvalidBlob  == [kind |-> "invalid",  elems |-> << >>]
NonArrayBlob == [kind |-> "nonarray", elems |-> << >>]
ArrayBlob(es) == [kind |-> "array",   elems |-> es]

\* JSON.stringify of a property value: undefined omits the property, null
\* and non-finite numbers are written as null.
StringifyValue(v) ==
    CASE v.t = "undefined"         -> JMissing
      [] v.t = "object"            -> JNull
      [] v.t = "number" /\ ~v.fin  -> JNull
      [] v.t = "number" /\ v.fin   -> JNum(v.n)
      [] v.t = "string"            -> JStr(v.s)
      [] v.t = "boolean"           -> JBool(v.b)

\* JSON.parse of a property value: a property that is not there reads as
\* undefined, a number literal beyond the double range reads as Infinity.
ParseValue(j) ==
    CASE j.t = "missing"           -> Undefined
      [] j.t = "null"              -> Null
      [] j.t = "number" /\ ~j.fin  -> Infinity
      [] j.t = "number" /\ j.fin   -> Num(j.n)
      [] j.t = "string"            -> Str(j.s)
      [] j.t = "boolean"           -> Bool(j.b)

StringifyElem(e) ==
    CASE e.shape = "object" ->
           JObj(StringifyValue(e.id), StringifyValue(e.text),
                StringifyValue(e.completed), StringifyValue(e.createdAt))
      [] e.shape = "null" -> JNullElem
      [] e.shape = "prim" -> JPrimElem

ParseElem(j) ==
    CASE j.shape = "object" ->
           Obj(ParseValue(j.id), ParseValue(j.text),
               ParseValue(j.completed), ParseValue(j.createdAt))
      [] j.shape = "null" -> NullElem
      [] j.shape = "prim" -> PrimElem

RECURSIVE StringifyElems(_)
StringifyElems(list) ==
    IF list = << >> THEN << >>
    ELSE <<StringifyElem(Head(list))>> \o StringifyElems(Tail(list))

RECURSIVE ParseElems(_)
ParseElems(js) ==
    IF js = << >> THEN << >>
    ELSE <<ParseElem(Head(js))>> \o ParseElems(Tail(js))

\* JSON.stringify(todos)
JSONstringify(list) == ArrayBlob(StringifyElems(list))

----------------------------------------------------------------------------
(* loadTodos, page.tsx:23-42 *)

\* the predicate without the check of `completed`
IsTodoUnchecked(todo) ==
    /\ TypeOf(todo.id) = "string"
    /\ TypeOf(todo.text) = "string"
    /\ TypeOf(todo.createdAt) = "number"

\* the predicate of parsed.filter (page.tsx:33-37)
IsTodo(todo) ==
    /\ TypeOf(todo.id) = "string"
    /\ TypeOf(todo.text) = "string"
    /\ TypeOf(todo.completed) = "boolean"
    /\ TypeOf(todo.createdAt) = "number"

RECURSIVE FilterTodos(_)
FilterTodos(parsed) ==
    IF parsed = << >> THEN << >>
    ELSE (IF IsTodo(Head(parsed)) THEN <<Head(parsed)>> ELSE << >>)
         \o FilterTodos(Tail(parsed))

\* reading a property of null throws a TypeError inside the try block
Throws(parsed) == \E i \in 1..Len(parsed) : parsed[i].shape = "null"

loadTodos(win, stored) ==
    IF ~win THEN << >>
    ELSE IF stored.kind \in {"absent", "empty"} THEN << >>
    ELSE IF stored.kind = "invalid" THEN << >>
    ELSE IF stored.kind = "nonarray" THEN << >>
    ELSE LET parsed == ParseElems(stored.elems)
         IN  IF Throws(parsed) THEN << >> ELSE FilterTodos(parsed)

----------------------------------------------------------------------------
(* The updater functions passed to setTodos *)

\* a === b for the values that occur here (no NaN, objects never compared)
StrictEq(a, b) == a = b

\* toggle that sets the flag instead of flipping it
RECURSIVE toggleListSets(_, _)
toggleListSets(prev, id) ==
    IF prev = << >> THEN << >>
    ELSE LET todo == Head(prev)
         IN  <<IF StrictEq(todo.id, id)
                 THEN [todo EXCEPT !.completed = Bool(TRUE)]
                 ELSE todo>>
             \o toggleListSets(Tail(prev), id)

\* toggle that flips every task, whatever its id
RECURSIVE toggleListAll(_, _)
toggleListAll(prev, id) ==
    IF prev = << >> THEN << >>
    ELSE <<[Head(prev) EXCEPT !.completed = Not(Head(prev).completed)]>>
         \o toggleListAll(Tail(prev), id)

\* prev.map(todo => todo.id === id ? {...todo, completed: !todo.completed}
\*                                 : todo)                 (page.tsx:91-93)
RECURSIVE toggleList(_, _)
toggleList(prev, id) ==
    IF prev = << >> THEN << >>
    ELSE LET todo == Head(prev)
         IN  <<IF StrictEq(todo.id, id)
                 THEN [todo EXCEPT !.completed = Not(todo.completed)]
                 ELSE todo>>
             \o toggleList(Tail(prev), id)

\* delete with the comparison inverted
RECURSIVE deleteListInverted(_, _)
deleteListInverted(prev, id) ==
    IF prev = << >> THEN << >>
    ELSE (IF StrictEq(Head(prev).id, id) THEN <<Head(prev)>> ELSE << >>)
         \o deleteListInverted(Tail(prev), id)

\* prev.filter(todo => todo.id !== id)                       (page.tsx:98)
RECURSIVE deleteList(_, _)
deleteList(prev, id) ==
    IF prev = << >> THEN << >>
    ELSE (IF ~StrictEq(Head(prev).id, id) THEN <<Head(prev)>> ELSE << >>)
         \o deleteList(Tail(prev), id)

\* clear without the negation
RECURSIVE clearListKeepsCompleted(_)
clearListKeepsCompleted(prev) ==
    IF prev = << >> THEN << >>
    ELSE (IF Truthy(Head(prev).completed) THEN <<Head(prev)>> ELSE << >>)
         \o clearListKeepsCompleted(Tail(prev))

\* prev.filter(todo => !todo.completed)                      (page.tsx:102)
RECURSIVE clearList(_)
clearList(prev) ==
    IF prev = << >> THEN << >>
    ELSE (IF Truthy(Not(Head(prev).completed)) THEN <<Head(prev)>> ELSE << >>)
         \o clearList(Tail(prev))

\* add at the end instead of the front
appendTodo(nextTodo, prev) == prev \o <<nextTodo>>

\* [nextTodo, ...prev]                                       (page.tsx:85)
prependTodo(nextTodo, prev) == <<nextTodo>> \o prev

\* a save effect that never writes
saveTodosNever(win, stored, list) == stored

\* a save effect without the environment guard
saveTodosUnguarded(win, stored, list) == JSONstringify(list)

\* the body of the [todos] effect                            (page.tsx:53-56)
saveTodos(win, stored, list) ==
    IF ~win THEN stored ELSE JSONstringify(list)

\* applying the queued setTodos(value) updates in order: the last one wins
applyUpdates(state, updates) ==
    IF updates = << >> THEN state ELSE updates[Len(updates)]

----------------------------------------------------------------------------
(* Derived state: filteredTodos (page.tsx:64-73) and stats (page.tsx:58-62) *)

\* list.filter(todo => todo.completed)
RECURSIVE completedOf(_)
completedOf(list) ==
    IF list = << >> THEN << >>
    ELSE (IF Truthy(Head(list).completed) THEN <<Head(list)>> ELSE << >>)
         \o completedOf(Tail(list))

\* list.filter(todo => !todo.completed)
RECURSIVE activeOf(_)
activeOf(list) ==
    IF list = << >> THEN << >>
    ELSE (IF Truthy(Not(Head(list).completed)) THEN <<Head(list)>> ELSE << >>)
         \o activeOf(Tail(list))

FilterKeys == {"all", "active", "completed"}

\* the switch with the two filtering cases exchanged
filteredTodosSwapped(key, list) ==
    CASE key = "active"    -> completedOf(list)
      [] key = "completed" -> activeOf(list)
      [] OTHER             -> list

filteredTodos(key, list) ==
    CASE key = "active"    -> activeOf(list)
      [] key = "completed" -> completedOf(list)
      [] OTHER             -> list

\* stats that report the total as the remaining count
statsNoSubtract(list) ==
    LET total == Len(list)
        completed == Len(completedOf(list))
    IN  [total |-> total, completed |-> completed, remaining |-> total]

stats(list) ==
    LET total == Len(list)
        completed == Len(completedOf(list))
    IN  [total |-> total, completed |-> completed,
         remaining |-> total - completed]

----------------------------------------------------------------------------
(* Initial contents of the storage entry *)

StoredElems ==
    { JObj(JStr(<<"id", 1>>), JStr(<<"a">>), JBool(FALSE), JNum(1)),
      JObj(JStr(<<"id", 1>>), JStr(<<" ">>), JBool(TRUE),  JBig),
      JObj(JStr(<<"id", 2>>), JStr(<< >>),   JBool(TRUE),  JNum(2)),
      JObj(JStr(<<"id", 2>>), JStr(<<"a">>), JStr(<<"a">>), JNum(1)),
      JObj(JMissing,          JStr(<<"a">>), JBool(FALSE), JNull),
      JNullElem,
      JPrimElem }

RECURSIVE SeqsUpTo(_, _)
SeqsUpTo(S, n) ==
    IF n = 0 THEN {<< >>}
    ELSE LET R == SeqsUpTo(S, n - 1)
         IN  R \cup {Append(q, e) : q \in {x \in R : Len(x) = n - 1}, e \in S}

StoredBlobs ==
    {AbsentBlob, EmptyBlob, InvalidBlob, NonArrayBlob}
      \cup {ArrayBlob(es) : es \in SeqsUpTo(StoredElems, MaxStored)}

\* what a localStorage global holds in an environment that has no window
\* (a server-side runtime with web storage): nothing, or a saved list
ServerBlobs ==
    { AbsentBlob,
      ArrayBlob(<<JObj(JStr(<<"id", 1>>), JStr(<<"a">>), JBool(FALSE),
                       JNum(1))>>) }

\* the id strings that occur in a stored blob
StoredIds(stored) ==
    {stored.elems[i].id.s : i \in {k \in 1..Len(stored.elems) :
                                     stored.elems[k].id.t = "string"}}

\* the id strings of a list of todos
IdsOf(list) == {list[i].id.s : i \in 1..Len(list)}

NoId == << >>
NoOp == [op |-> "none", id |-> NoId]

----------------------------------------------------------------------------
(* The component *)

Init ==
    /\ todos = << >>
    /\ text = << >>
    /\ filter = "all"
    /\ hasWindow \in BOOLEAN
    /\ storage \in StoredBlobs
    /\ (~hasWindow => storage \in ServerBlobs)
    /\ pc = "mount"
    /\ pass = 0
    /\ queue = << >>
    /\ savePending = FALSE
    /\ lastOp = NoOp
    /\ prevList = << >>

\* useEffect(() => { setTodos(loadTodos()); }, [])          (page.tsx:49-51)
LoadEffect ==
    /\ pc = "mount"
    /\ queue' = Append(queue, loadTodos(hasWindow, storage))
    /\ pc' = "save"
    /\ UNCHANGED <<todos, text, filter, storage, hasWindow, pass,
                   savePending, lastOp, prevList>>

\* the [todos] effect of the mount commit: it sees the initial todos
MountSaveEffect ==
    /\ pc = "save"
    /\ storage' = saveTodos(hasWindow, storage, todos)
    /\ pass' = pass + 1
    /\ pc' = "effectsDone"
    /\ UNCHANGED <<todos, text, filter, hasWindow, queue, savePending,
                   lastOp, prevList>>

\* React StrictMode (development builds): the effects of a newly mounted
\* component are run a second time before any queued update is rendered
StrictModeRemount ==
    /\ pc = "effectsDone"
    /\ pass = 1
    /\ pc' = "mount"
    /\ UNCHANGED <<todos, text, filter, storage, hasWindow, pass, queue,
                   savePending, lastOp, prevList>>

\* the render that applies the updates the mount effects queued; todos is
\* a new array, so the [todos] effect is scheduled again
Render ==
    /\ pc = "effectsDone"
    /\ todos' = applyUpdates(todos, queue)
    /\ queue' = << >>
    /\ pass' = 0
    /\ savePending' = TRUE
    /\ pc' = "loaded"
    /\ UNCHANGED <<text, filter, storage, hasWindow, lastOp, prevList>>

\* the [todos] effect after a render that changed todos     (page.tsx:53-56)
SaveEffect ==
    /\ savePending
    /\ storage' = saveTodos(hasWindow, storage, todos)
    /\ savePending' = FALSE
    /\ pc' = "ready"
    /\ lastOp' = NoOp
    /\ prevList' = << >>
    /\ UNCHANGED <<todos, text, filter, hasWindow, pass, queue>>

\* an event is handled only when the previous one is rendered and flushed
Idle == pc = "ready" /\ ~savePending

\* onChange={(event) => setText(event.target.value)}
handleChange(value) ==
    /\ Idle
    /\ text' = value
    /\ lastOp' = NoOp
    /\ UNCHANGED <<todos, filter, storage, hasWindow, pc, pass, queue,
                   savePending, prevList>>

\* a filter selection that also schedules the [todos] effect
selectFilterSaves(key) ==
    /\ Idle
    /\ filter' = key
    /\ savePending' = TRUE
    /\ lastOp' = NoOp
    /\ UNCHANGED <<todos, text, storage, hasWindow, pc, pass, queue,
                   prevList>>

\* onClick={() => setFilter(item.key)}
selectFilter(key) ==
    /\ Idle
    /\ filter' = key
    /\ lastOp' = NoOp
    /\ UNCHANGED <<todos, text, storage, hasWindow, pc, pass, queue,
                   savePending, prevList>>

\* createId(): a random value, taken to occur nowhere in the list or the
\* storage (the code does not check)                        (page.tsx:16-21)
FreshIds == IdStrings \ (IdsOf(todos) \cup StoredIds(storage))

handleSubmit ==
    /\ Idle
    /\ LET trimmed == Trim(text)
       IN  IF ~Truthy(Str(trimmed))
           THEN /\ lastOp' = [op |-> "submit", id |-> NoId]
                /\ UNCHANGED <<todos, text, savePending>>
           ELSE /\ Len(todos) < MaxLen
                /\ \E id \in FreshIds, now \in Timestamps :
                      /\ todos' = prependTodo(Obj(Str(id), Str(trimmed),
                                                  Bool(FALSE), Num(now)),
                                              todos)
                      /\ lastOp' = [op |-> "submit", id |-> id]
                /\ text' = << >>
                /\ savePending' = TRUE
    /\ UNCHANGED <<filter, storage, hasWindow, pc, pass, queue, prevList>>

toggleTodo(id) ==
    /\ Idle
    /\ todos' = toggleList(todos, Str(id))
    /\ savePending' = TRUE
    /\ lastOp' = [op |-> "toggle", id |-> id]
    /\ UNCHANGED <<text, filter, storage, hasWindow, pc, pass, queue,
                   prevList>>

deleteTodo(id) ==
    /\ Idle
    /\ todos' = deleteList(todos, Str(id))
    /\ savePending' = TRUE
    /\ lastOp' = [op |-> "delete", id |-> id]
    /\ UNCHANGED <<text, filter, storage, hasWindow, pc, pass, queue,
                   prevList>>

clearCompleted ==
    /\ Idle
    /\ todos' = clearList(todos)
    /\ savePending' = TRUE
    /\ lastOp' = [op |-> "clear", id |-> NoId]
    /\ UNCHANGED <<text, filter, storage, hasWindow, pc, pass, queue,
                   prevList>>

\* the page is loaded again: a new instance of Home over the same storage
Reload ==
    /\ Idle
    /\ prevList' = todos
    /\ todos' = << >>
    /\ text' = << >>
    /\ filter' = "all"
    /\ pc' = "mount"
    /\ pass' = 0
    /\ queue' = << >>
    /\ lastOp' = [op |-> "reload", id |-> NoId]
    /\ UNCHANGED <<storage, hasWindow, savePending>>

Next ==
    \/ LoadEffect
    \/ MountSaveEffect
    \/ StrictModeRemount
    \/ Render
    \/ SaveEffect
    \/ \E value \in InputStrings : handleChange(value)
    \/ \E key \in FilterKeys : selectFilter(key)
    \/ handleSubmit
    \/ \E id \in IdStrings : toggleTodo(id)
    \/ \E id \in IdStrings : deleteTodo(id)
    \/ clearCompleted
    \/ Reload

Spec == Init /\ [][Next]_vars

----------------------------------------------------------------------------
(* Properties *)

Spaces(n) == [i \in 1..n |-> " "]

\* s consists of whitespace only (this includes the empty string)
IsBlank(s) == \A k \in 1..Len(s) : s[k] = " "

\* t is s without its leading and trailing whitespace
IsTrimOf(t, s) ==
    /\ \E i \in 0..Len(s), j \in 0..Len(s) : s = Spaces(i) \o t \o Spaces(j)
    /\ t # << >> => (t[1] # " " /\ t[Len(t)] # " ")

IsActive(todo) == todo.completed = Bool(FALSE)
IsCompleted(todo) == todo.completed = Bool(TRUE)

\* C1: a fresh view instance started over the same storage ends its
\* startup holding the list the previous instance held.
DurableAcrossReload ==
    (hasWindow /\ pc = "loaded" /\ lastOp.op = "reload") => todos = prevList

\* C2: every mutation schedules a write; a scheduled write stores the
\* serialization of the list exactly as the mutation left it before anything
\* else happens; so whenever no write is pending the stored blob is the
\* serialization of the in-memory list.
WriteFollowsMutation ==
    /\ [][(Idle /\ lastOp'.op \in {"toggle", "delete", "clear"})
             => savePending']_vars
    /\ [][(Idle /\ lastOp'.op = "submit" /\ ~IsBlank(text))
             => savePending']_vars
    /\ [][(hasWindow /\ savePending)
             => (/\ storage' = JSONstringify(todos)
                 /\ todos' = todos
                 /\ ~savePending')]_vars
    /\ []((hasWindow /\ ~savePending /\ pc \in {"effectsDone", "ready"})
             => storage = JSONstringify(todos))

WriteFollowsMutationWitness ==
    /\ hasWindow
    /\ Idle
    /\ \E i \in 1..Len(todos) :
          todos[i].text = Str(<<"a", " ", "a">>) /\ IsCompleted(todos[i])
    /\ storage = JSONstringify(todos)

\* C3: the ids of the tasks in the in-memory list are pairwise distinct.
UniqueIds ==
    \A i, j \in 1..Len(todos) : i # j => todos[i].id # todos[j].id

\* C4: delete(id) removes at most one element and leaves every other
\* element present, unchanged and in the same order.
DeleteRemovesAtMostOne ==
    [][(Idle /\ lastOp'.op = "delete")
          => (/\ Len(todos) - Len(todos') <= 1
              /\ todos' = SelectSeq(todos,
                                    LAMBDA t : t.id # Str(lastOp'.id)))]_vars

\* C5: add with input that does not trim to the empty string makes the list
\* one longer; the new task is first, has the trimmed input as text,
\* completed = false and an id no other task has; the previous tasks follow
\* unchanged in their order; the input field becomes the empty string.
AddPrepends ==
    [][(Idle /\ lastOp'.op = "submit" /\ ~IsBlank(text))
          => (/\ Len(todos') = Len(todos) + 1
              /\ todos'[1].text.t = "string"
              /\ IsTrimOf(todos'[1].text.s, text)
              /\ todos'[1].completed = Bool(FALSE)
              /\ todos'[1].id = Str(lastOp'.id)
              /\ lastOp'.id \notin IdsOf(todos)
              /\ Tail(todos') = todos
              /\ text' = << >>)]_vars

AddPrependsWitness ==
    /\ savePending
    /\ lastOp.op = "submit"
    /\ Len(todos) >= 2
    /\ todos[1].id = Str(lastOp.id)
    /\ IsCompleted(todos[2])
    /\ text = << >>

\* C6: add with empty or whitespace-only input changes neither the list,
\* the input text, the filter nor the stored blob and schedules no write.
BlankAddIsNoOp ==
    [][(Idle /\ lastOp'.op = "submit" /\ IsBlank(text))
          => (/\ todos' = todos
              /\ text' = text
              /\ filter' = filter
              /\ storage' = storage
              /\ ~savePending'
              /\ pc' = pc)]_vars

BlankAddIsNoOpWitness ==
    /\ Idle
    /\ lastOp = [op |-> "submit", id |-> NoId]
    /\ text = <<" ">>
    /\ todos # << >>
    /\ filter # "all"

\* C7: toggle(id) applied twice in a row restores the list, for every id.
ToggleInvolutive ==
    \A id \in IdStrings :
        toggleList(toggleList(todos, Str(id)), Str(id)) = todos

ToggleInvolutiveWitness ==
    /\ savePending
    /\ lastOp.op = "toggle"
    /\ lastOp.id \in IdsOf(todos)
    /\ \E i \in 1..Len(todos) : IsCompleted(todos[i])
    /\ toggleList(todos, Str(lastOp.id)) # todos

\* C8: toggle(id) and delete(id) with an id that is not in the list leave
\* the list as it is, and so does the write they schedule leave the stored
\* blob; delete(id) applied twice gives what applying it once gives.
MissingIdIsNoOp ==
    /\ [][(Idle /\ lastOp'.op \in {"toggle", "delete"}
                /\ lastOp'.id \notin IdsOf(todos))
             => (todos' = todos /\ storage' = storage)]_vars
    /\ [][(savePending /\ lastOp.op \in {"toggle", "delete"}
                /\ lastOp.id \notin (IdsOf(todos) \cup StoredIds(storage)))
             => (storage' = storage /\ todos' = todos)]_vars
    /\ [](\A id \in IdStrings :
             deleteList(deleteList(todos, Str(id)), Str(id))
               = deleteList(todos, Str(id)))

MissingIdIsNoOpWitness ==
    /\ hasWindow
    /\ savePending
    /\ lastOp.op = "delete"
    /\ lastOp.id \notin (IdsOf(todos) \cup StoredIds(storage))
    /\ Len(todos) >= 2

\* C9: clearCompleted leaves exactly the tasks with completed = false,
\* each unchanged and in their order: afterwards no task is completed and
\* the number of tasks that are not completed is what it was.
ClearKeepsActive ==
    [][(Idle /\ lastOp'.op = "clear")
          => (/\ todos' = SelectSeq(todos, IsActive)
              /\ \A i \in 1..Len(todos') : ~IsCompleted(todos'[i])
              /\ Len(todos') = Cardinality({i \in 1..Len(todos) :
                                              IsActive(todos[i])}))]_vars

ClearKeepsActiveWitness ==
    /\ hasWindow
    /\ savePending
    /\ lastOp.op = "clear"
    /\ todos # << >>
    /\ Len(storage.elems) > Len(todos)

\* C10: saving a list of well-typed tasks and loading it again gives the
\* same list.
RoundTrip ==
    loadTodos(TRUE, JSONstringify(todos)) = todos

\* the elements of a stored array that are objects with the four fields of
\* the required types, in stored order
IsWellTyped(e) ==
    /\ e.shape = "object"
    /\ e.id.t = "string"
    /\ e.text.t = "string"
    /\ e.completed.t = "boolean"
    /\ e.createdAt.t = "number"

\* a step of the load effect, and the list it hands to setTodos
IsLoadStep == pc = "mount" /\ pc' = "save"
Loaded == queue'[Len(queue')]

\* C11: load returns the empty list when the key is absent or the value is
\* empty, not JSON or not an array, and every element of a list it returns
\* has id: string, text: string, completed: boolean, createdAt: number.
LoadFailsSoft ==
    [][IsLoadStep
          => (/\ Len(queue') = Len(queue) + 1
              /\ storage.kind \in {"absent", "empty", "invalid", "nonarray"}
                   => Loaded = << >>
              /\ \A i \in 1..Len(Loaded) : IsWellTyped(Loaded[i]))]_vars

LoadFailsSoftWitness ==
    /\ hasWindow
    /\ pc = "save"
    /\ storage.kind = "array"
    /\ Len(storage.elems) = 2
    /\ Len(queue[Len(queue)]) = 1

\* C12: the visible list is the tasks with completed = false under filter
\* active, those with completed = true under filter completed and the whole
\* list under filter all, in list order; the active and the completed view
\* share no task and together hold every task.
VisibleListByFilter ==
    LET visible == filteredTodos(filter, todos)
        active == filteredTodos("active", todos)
        done == filteredTodos("completed", todos)
        Range(q) == {q[i] : i \in 1..Len(q)}
    IN  /\ filter \in FilterKeys
        /\ filter = "all" => visible = todos
        /\ filter = "active" => visible = SelectSeq(todos, IsActive)
        /\ filter = "completed" => visible = SelectSeq(todos, IsCompleted)
        /\ Range(active) \cap Range(done) = {}
        /\ Range(active) \cup Range(done) = Range(todos)
        /\ Len(active) + Len(done) = Len(todos)

VisibleListByFilterWitness ==
    /\ Idle
    /\ filter = "active"
    /\ Len(todos) = 2
    /\ IsCompleted(todos[1])
    /\ IsActive(todos[2])

\* C13: selecting a filter changes the filter only: list, input text and
\* stored blob stay and no write is scheduled; add, toggle, delete,
\* clearCompleted and the write they schedule leave the filter as it is.
FilterIsIndependent ==
    /\ [][(Idle /\ filter' # filter /\ lastOp'.op # "reload")
             => (/\ todos' = todos
                 /\ text' = text
                 /\ storage' = storage
                 /\ ~savePending'
                 /\ pc' = pc)]_vars
    /\ [][(Idle /\ lastOp'.op \in {"submit", "toggle", "delete", "clear"})
             => filter' = filter]_vars
    /\ [][savePending => filter' = filter]_vars

FilterIsIndependentWitness ==
    /\ hasWindow
    /\ Idle
    /\ lastOp = NoOp
    /\ filter = "completed"
    /\ text = <<"a">>
    /\ Len(todos) = 2
    /\ storage = JSONstringify(todos)

\* C14: from a stored JSON array load returns exactly its well-typed
\* elements in stored order; a malformed element (a field missing or of the
\* wrong type, null, a primitive) is dropped alone.
LoadKeepsWellTyped ==
    [][(IsLoadStep /\ hasWindow /\ storage.kind = "array")
          => Loaded = SelectSeq(ParseElems(storage.elems), IsWellTyped)]_vars

\* the tasks of list at the positions in keep, unchanged and in list order
KeptAt(list, keep) ==
    LET idx == SelectSeq([i \in 1..Len(list) |-> i], LAMBDA i : i \in keep)
    IN  [k \in 1..Len(idx) |-> list[idx[k]]]

\* C15: no operation changes the id, text or createdAt of a task: toggle(id)
\* keeps length and order and changes only the completed flag, and only of
\* tasks whose id matches; delete and clearCompleted keep tasks as they
\* are; add puts the new task in front of the unchanged list; everything
\* else leaves the list alone.
TasksAreImmutable ==
    /\ [][(Idle /\ lastOp'.op = "toggle")
             => (/\ Len(todos') = Len(todos)
                 /\ \A i \in 1..Len(todos) :
                       /\ todos'[i].id = todos[i].id
                       /\ todos'[i].text = todos[i].text
                       /\ todos'[i].createdAt = todos[i].createdAt
                       /\ todos'[i].shape = todos[i].shape
                       /\ todos[i].id # Str(lastOp'.id)
                            => todos'[i].completed = todos[i].completed)]_vars
    /\ [][(Idle /\ lastOp'.op \in {"delete", "clear"})
             => \E keep \in SUBSET (1..Len(todos)) :
                   todos' = KeptAt(todos, keep)]_vars
    /\ [][(Idle /\ lastOp'.op = "submit" /\ savePending')
             => Tail(todos') = todos]_vars
    /\ [][(Idle /\ lastOp'.op \in {"none", "submit"} /\ ~savePending')
             => todos' = todos]_vars
    /\ [][savePending => todos' = todos]_vars

TasksAreImmutableWitness ==
    /\ savePending
    /\ lastOp.op = "toggle"
    /\ Len(todos) = 2
    /\ todos[1].id = Str(lastOp.id)
    /\ todos[2].id # Str(lastOp.id)
    /\ IsCompleted(todos[1])
    /\ IsCompleted(todos[2])

\* C16: every task in the in-memory list has a text that is not empty and
\* has no whitespace at either end.
TextsAreTrimmed ==
    \A i \in 1..Len(todos) :
        LET txt == todos[i].text.s
        IN  txt # << >> /\ txt[1] # " " /\ txt[Len(txt)] # " "

\* C17: the counts are those of the whole list, whatever the filter: total
\* is its length, completed the number of tasks with completed = true,
\* remaining the number with completed = false; they add up and are not
\* negative; right after adding a task to the empty list remaining = 1 and
\* completed = 0.
StatsCountWholeList ==
    LET s == stats(todos)
    IN  /\ s.total = Len(todos)
        /\ s.completed = Cardinality({i \in 1..Len(todos) :
                                        IsCompleted(todos[i])})
        /\ s.remaining = Cardinality({i \in 1..Len(todos) :
                                        IsActive(todos[i])})
        /\ s.remaining + s.completed = s.total
        /\ s.remaining >= 0
        /\ s.completed >= 0
        /\ (savePending /\ lastOp.op = "submit" /\ Len(todos) = 1)
             => (s.remaining = 1 /\ s.completed = 0)

StatsCountWholeListWitness ==
    /\ hasWindow
    /\ savePending
    /\ lastOp.op = "submit"
    /\ storage = ArrayBlob(<< >>)
    /\ Len(todos) = 1
    /\ todos[1].text = Str(<<"a", " ", "a">>)
    /\ stats(todos).remaining = 1

\* C18: without a window load returns the empty list, whatever is stored,
\* and no step writes to the storage.
NoWindowNoStorageAccess ==
    /\ [][~hasWindow => storage' = storage]_vars
    /\ [][(~hasWindow /\ IsLoadStep) => Loaded = << >>]_vars

NoWindowNoStorageAccessWitness ==
    /\ ~hasWindow
    /\ Idle
    /\ storage.kind = "array"
    /\ storage.elems # << >>
    /\ Len(todos) = 2
    /\ storage # JSONstringify(todos)

\* C19: from the mount of the view until the loaded list is installed, no
\* write drops a well-typed task from the stored blob.
StartupKeepsStoredTasks ==
    [][(hasWindow /\ pc \in {"mount", "save", "effectsDone"})
          => \A i \in 1..Len(storage.elems) :
                IsWellTyped(ParseElem(storage.elems[i]))
                  => \E j \in 1..Len(storage'.elems) :
                        storage'.elems[j] = storage.elems[i]]_vars

====
